---- MODULE Spec2Model ----
(***************************************************************************)
(* Model of examples/tox21/train_tox21.py: the main() procedure of the     *)
(* sparse-matmul experimental training script.  main() is straight-line     *)
(* code; each action below is one block of it and pc is the position of    *)
(* the interpreter.  Calls into chainer / chainer_chemistry are modelled   *)
(* by the objects they construct (records that keep the arguments of the   *)
(* call), since the script only wires those objects together.              *)
(*                                                                         *)
(* main() can only be entered when the module-level imports of lines 55-57 *)
(* succeeded (they are not guarded), so the guarded imports of lines 58-71 *)
(* (BalancedSerialIterator, ROCAUCEvaluator), which come from the same     *)
(* package, are taken to have succeeded as well.                           *)
(***************************************************************************)
EXTENDS Integers, Sequences, FiniteSets

VARIABLES
    argv,         \* the command line: one value per option ("" = option absent)
    pc,           \* position in main()
    args,         \* the argparse Namespace (line 129)
    method,       \* local `method` (line 131)
    labels,       \* local `labels` (lines 138/141)
    class_num,    \* local `class_num` (lines 139/142)
    train,        \* local `train` (line 145)
    val,          \* local `val` (line 145)
    predictor_,   \* local `predictor_` (line 149)
    train_iter,   \* local `train_iter` (lines 154/160)
    val_iter,     \* local `val_iter` (line 165)
    classifier,   \* local `classifier` (line 168)
    optimizer,    \* local `optimizer` (line 175)
    updater,      \* local `updater` (line 184)
    trainer,      \* local `trainer` (line 186) with its extensions
    files,        \* the files written by main(): path -> content
    err           \* the exception that ended main(), if any

vars == <<argv, pc, args, method, labels, class_num, train, val, predictor_,
          train_iter, val_iter, classifier, optimizer, updater, trainer,
          files, err>>

-----------------------------------------------------------------------------
(* Bounds of the sampled command lines.                                    *)

\* how many of the Tox21 label names are tried as --label
MaxLabelArgs == 2
\* --eval-mode is drawn from -1 .. MaxEvalMode
MaxEvalMode == 2
\* --frequency is drawn from -2 .. MaxFrequency
MaxFrequency == 1
\* --epoch is drawn from -1 .. MaxEpoch
MaxEpoch == 1

-----------------------------------------------------------------------------
(* Python values.                                                          *)

\* a local name that is not bound yet
Unbound == [py |-> "unbound"]
\* Python's None
None == [py |-> "None"]
\* a Python str
Str(s) == [py |-> "str", v |-> s]
\* no exception
NoError == [type |-> "", site |-> ""]

\* truthiness of a str (`if args.label:`, `if args.resume:`)
Truthy(s) == s # ""

Max(a, b) == IF a >= b THEN a ELSE b

-----------------------------------------------------------------------------
(* Lines 85-88: the option tables.                                         *)

method_list == <<"nfp", "ggnn", "schnet", "weavenet", "rsgcn", "sparse_rsgcn">>

\* D.get_tox21_label_names(): the twelve Tox21 tasks
label_names == <<"NR-AR", "NR-AR-LBD", "NR-AhR", "NR-Aromatase", "NR-ER",
                 "NR-ER-LBD", "NR-PPAR-gamma", "SR-ARE", "SR-ATAD5",
                 "SR-HSE", "SR-MMP", "SR-p53">>

iterator_type_list == <<"serial", "balanced">>

Range(s) == {s[i] : i \in 1..Len(s)}

\* argparse defaults (lines 93, 96, 100, 109, 111, 126)
DefaultMethod == "nfp"
DefaultLabel == ""
DefaultIteratorType == "serial"
DefaultBatchsize == 32
DefaultGpu == -1
DefaultMultiplier == 1

-----------------------------------------------------------------------------
(* The sampled command lines.  "" stands for an option that is absent;     *)
(* "gcn", "NR-XX" and "random" are values outside the choices lists.       *)

MethodArgs == Range(method_list) \cup {"", "gcn"}
LabelArgs == {label_names[i] : i \in 1..MaxLabelArgs} \cup {"", "NR-XX"}
IteratorTypeArgs == Range(iterator_type_list) \cup {"random"}
EvalModeArgs == (-1)..MaxEvalMode
ConvLayersArgs == {2, 4}
UnitNumArgs == {16}
OutArgs == {"result", "out"}
EpochArgs == (-1)..MaxEpoch
ResumeArgs == {"", "result/snapshot_iter_100"}
FrequencyArgs == (-2)..MaxFrequency

CommandLines ==
    [method : MethodArgs, label : LabelArgs, iterator_type : IteratorTypeArgs,
     eval_mode : EvalModeArgs, conv_layers : ConvLayersArgs,
     unit_num : UnitNumArgs, out : OutArgs, epoch : EpochArgs,
     resume : ResumeArgs, frequency : FrequencyArgs, flatten : BOOLEAN]

-----------------------------------------------------------------------------
(* Lines 90-129: parser.parse_args().                                      *)

\* an option with `choices`: a value that is given must be one of them
ChoiceOk(given, choices) == given = "" \/ given \in Range(choices)

\* the command line is accepted by the parser
Accepted(a) ==
    /\ ChoiceOk(a.method, method_list)
    /\ ChoiceOk(a.label, label_names)
    /\ ChoiceOk(a.iterator_type, iterator_type_list)

\* an absent option takes its default
OrDefault(given, default) == IF given = "" THEN default ELSE given

\* the Namespace parse_args() returns for an accepted command line
Namespace(a) ==
    [method |-> OrDefault(a.method, DefaultMethod),
     label |-> OrDefault(a.label, DefaultLabel),
     iterator_type |-> OrDefault(a.iterator_type, DefaultIteratorType),
     eval_mode |-> a.eval_mode,
     conv_layers |-> a.conv_layers,
     batchsize |-> DefaultBatchsize,
     gpu |-> DefaultGpu,
     out |-> a.out,
     epoch |-> a.epoch,
     unit_num |-> a.unit_num,
     resume |-> a.resume,
     frequency |-> a.frequency,
     flatten |-> a.flatten,
     multiplier |-> DefaultMultiplier]

Init ==
    /\ argv \in CommandLines
    /\ pc = "parse_args"
    /\ args = Unbound
    /\ method = Unbound
    /\ labels = Unbound
    /\ class_num = 0
    /\ train = Unbound
    /\ val = Unbound
    /\ predictor_ = Unbound
    /\ train_iter = Unbound
    /\ val_iter = Unbound
    /\ classifier = Unbound
    /\ optimizer = Unbound
    /\ updater = Unbound
    /\ trainer = Unbound
    /\ files = <<>>
    /\ err = NoError

\* `raise`: main() ends with an exception, nothing else changes
Raise(type, site) ==
    /\ pc' = "raised"
    /\ err' = [type |-> type, site |-> site]

ParseArgs ==
    /\ pc = "parse_args"
    /\ IF Accepted(argv)
       THEN /\ args' = Namespace(argv)
            /\ pc' = "check_method"
            /\ UNCHANGED err
       ELSE /\ Raise("SystemExit", "parse_args")
            /\ UNCHANGED args
    /\ UNCHANGED <<argv, method, labels, class_num, train, val, predictor_,
                   train_iter, val_iter, classifier, optimizer, updater,
                   trainer, files>>

-----------------------------------------------------------------------------
(* Lines 131-135: only the two RSGCN variants are supported.               *)

\* a faulty check: every method of method_list passes
MethodSupported_AnyListed(m) == m \in Range(method_list)

MethodSupported(m) == m \in {"rsgcn", "sparse_rsgcn"}

CheckMethod ==
    /\ pc = "check_method"
    /\ method' = args.method
    /\ IF ~MethodSupported(args.method)
       THEN Raise("ValueError", "method")
       ELSE /\ pc' = "select_labels"
            /\ UNCHANGED err
    /\ UNCHANGED <<argv, args, labels, class_num, train, val, predictor_,
                   train_iter, val_iter, classifier, optimizer, updater,
                   trainer, files>>

-----------------------------------------------------------------------------
(* Lines 137-142: the labels to predict and their number.                  *)

\* `labels`: args.label is a str, never a list
Labels(label) == IF Truthy(label) THEN Str(label) ELSE None

\* `class_num`: `len(labels) if isinstance(labels, list) else 1`, or all
ClassNum(label) == IF Truthy(label) THEN 1 ELSE Len(label_names)

SelectLabels ==
    /\ pc = "select_labels"
    /\ labels' = Labels(args.label)
    /\ class_num' = ClassNum(args.label)
    /\ pc' = "load_dataset"
    /\ UNCHANGED <<argv, args, method, train, val, predictor_, train_iter,
                   val_iter, classifier, optimizer, updater, trainer, files,
                   err>>

-----------------------------------------------------------------------------
(* Lines 144-150: data.load_dataset and predictor.build_predictor.         *)

\* one split of data.load_dataset(method, labels, multiplier=...)
Dataset(split, m, ls, mult) ==
    [split |-> split, method |-> m, labels |-> ls, multiplier |-> mult]

\* the tasks a dataset holds: `labels=None` selects all of them (line 97)
TaskNames(ds) ==
    IF ds.labels.py = "None" THEN Range(label_names) ELSE {ds.labels.v}

LoadDataset ==
    /\ pc = "load_dataset"
    /\ train' = Dataset("train", method, labels, args.multiplier)
    /\ val' = Dataset("val", method, labels, args.multiplier)
    /\ pc' = "build_predictor"
    /\ UNCHANGED <<argv, args, method, labels, class_num, predictor_,
                   train_iter, val_iter, classifier, optimizer, updater,
                   trainer, files, err>>

BuildPredictor ==
    /\ pc = "build_predictor"
    /\ predictor_' = [method |-> method, unit_num |-> args.unit_num,
                      conv_layers |-> args.conv_layers,
                      class_num |-> class_num]
    /\ pc' = "make_iterators"
    /\ UNCHANGED <<argv, args, method, labels, class_num, train, val,
                   train_iter, val_iter, classifier, optimizer, updater,
                   trainer, files, err>>

-----------------------------------------------------------------------------
(* Lines 152-166: the training and validation iterators.                   *)

SerialIterator(ds, batch_size, repeat, shuffle) ==
    [kind |-> "SerialIterator", dataset |-> ds, batch_size |-> batch_size,
     repeat |-> repeat, shuffle |-> shuffle]

\* BalancedSerialIterator(train, batchsize, train.features[:, -1],
\*                        ignore_labels=-1)
BalancedSerialIterator(ds, batch_size) ==
    [kind |-> "BalancedSerialIterator", dataset |-> ds,
     batch_size |-> batch_size, labels |-> "features[:, -1]",
     ignore_labels |-> -1]

\* a faulty check: off by one, a single label is rejected too
BalancedRejected_OffByOne(n) == n >= 1

\* line 156: the balanced iterator handles one label only
BalancedRejected(n) == n > 1

MakeIterators ==
    /\ pc = "make_iterators"
    /\ IF args.iterator_type = "serial"
       THEN /\ train_iter' = SerialIterator(train, args.batchsize, TRUE, TRUE)
            /\ val_iter' = SerialIterator(val, args.batchsize, FALSE, FALSE)
            /\ pc' = "make_classifier"
            /\ UNCHANGED err
       ELSE IF args.iterator_type = "balanced"
       THEN IF BalancedRejected(class_num)
            THEN /\ Raise("ValueError", "balanced")
                 /\ UNCHANGED <<train_iter, val_iter>>
            ELSE /\ train_iter' = BalancedSerialIterator(train, args.batchsize)
                 /\ val_iter' = SerialIterator(val, args.batchsize, FALSE,
                                               FALSE)
                 /\ pc' = "make_classifier"
                 /\ UNCHANGED err
       ELSE /\ Raise("ValueError", "iterator_type")
            /\ UNCHANGED <<train_iter, val_iter>>
    /\ UNCHANGED <<argv, args, method, labels, class_num, train, val,
                   predictor_, classifier, optimizer, updater, trainer,
                   files>>

-----------------------------------------------------------------------------
(* Lines 168-176: the classifier and its optimizer.                        *)

MakeClassifier ==
    /\ pc = "make_classifier"
    /\ classifier' = [predictor |-> predictor_,
                      lossfun |-> "sigmoid_cross_entropy",
                      accfun |-> "binary_accuracy",
                      on_gpu |-> (args.gpu >= 0)]
    /\ optimizer' = [kind |-> "Adam", target |-> "classifier"]
    /\ pc' = "make_trainer"
    /\ UNCHANGED <<argv, args, method, labels, class_num, train, val,
                   predictor_, train_iter, val_iter, updater, trainer, files,
                   err>>

-----------------------------------------------------------------------------
(* Lines 178-186: the batch converter, the updater and the trainer.        *)

concat_mols == [fn |-> "concat_mols"]

concat_sparse_rsgcn(flatten) ==
    [fn |-> "concat_sparse_rsgcn", flatten |-> flatten]

\* the closure `converter`: the function it hands a batch to
converter(m, flatten) ==
    IF m = "sparse_rsgcn" THEN concat_sparse_rsgcn(flatten) ELSE concat_mols

MakeTrainer ==
    /\ pc = "make_trainer"
    /\ updater' = [kind |-> "StandardUpdater", iterator |-> train_iter,
                   optimizer |-> optimizer, device |-> args.gpu,
                   converter |-> converter(method, args.flatten)]
    /\ trainer' = [updater |-> updater',
                   stop_trigger |-> [period |-> args.epoch, unit |-> "epoch"],
                   out |-> args.out,
                   extensions |-> <<>>,
                   loaded |-> <<>>,
                   runs |-> 0]
    /\ pc' = "extend_evaluator"
    /\ UNCHANGED <<argv, args, method, labels, class_num, train, val,
                   predictor_, train_iter, val_iter, classifier, optimizer,
                   files, err>>

-----------------------------------------------------------------------------
(* Lines 188-218: the trainer extensions.                                  *)

\* trainer.extend(e1); trainer.extend(e2); ...: each call appends one extension
ExtendAll(tr, es) == [tr EXCEPT !.extensions = @ \o es]

\* E.Evaluator(val_iter, classifier, device=..., converter=converter)
Evaluator(it, conv) ==
    [kind |-> "Evaluator", name |-> "validation", iterator |-> it,
     converter |-> conv]

LogReport == [kind |-> "LogReport"]

PrintReport(entries) == [kind |-> "PrintReport", entries |-> entries]

\* ROCAUCEvaluator(it, classifier, eval_func=predictor_, device=...,
\*                 converter=concat_mols, name=..., pos_labels=1,
\*                 ignore_labels=-1)
ROCAUCEvaluator(it, name) ==
    [kind |-> "ROCAUCEvaluator", name |-> name, iterator |-> it,
     converter |-> concat_mols, pos_labels |-> 1, ignore_labels |-> -1]

ExtendEvaluator ==
    /\ pc = "extend_evaluator"
    /\ trainer' = ExtendAll(trainer,
           <<Evaluator(val_iter, converter(method, args.flatten)),
             LogReport>>)
    /\ pc' = "eval_mode"
    /\ UNCHANGED <<argv, args, method, labels, class_num, train, val,
                   predictor_, train_iter, val_iter, classifier, optimizer,
                   updater, files, err>>

\* a faulty check: every non-negative mode passes
EvalModeKnown_NonNegative(mode) == mode >= 0

\* lines 192-215: the eval modes the script knows
EvalModeKnown(mode) == mode \in {0, 1}

\* a faulty wiring: the ROC-AUC evaluators are registered in every mode
EvalModeExtensions_AlwaysRocAuc(mode, tr, vi, batch_size) ==
    <<ROCAUCEvaluator(SerialIterator(tr, batch_size, FALSE, FALSE), "train"),
      ROCAUCEvaluator(vi, "val"),
      PrintReport(<<"epoch", "main/loss", "main/accuracy",
                    "train/main/roc_auc", "validation/main/loss",
                    "validation/main/accuracy", "val/main/roc_auc",
                    "elapsed_time">>)>>

\* lines 193-213: the extensions an eval mode registers, in order
EvalModeExtensions(mode, tr, vi, batch_size) ==
    IF mode = 0
    THEN <<PrintReport(<<"epoch", "main/loss", "main/accuracy",
                         "validation/main/loss", "validation/main/accuracy",
                         "elapsed_time">>)>>
    ELSE <<ROCAUCEvaluator(SerialIterator(tr, batch_size, FALSE, FALSE),
                           "train"),
           ROCAUCEvaluator(vi, "val"),
           PrintReport(<<"epoch", "main/loss", "main/accuracy",
                         "train/main/roc_auc", "validation/main/loss",
                         "validation/main/accuracy", "val/main/roc_auc",
                         "elapsed_time">>)>>

EvalMode ==
    /\ pc = "eval_mode"
    /\ IF EvalModeKnown(args.eval_mode)
       THEN /\ trainer' = ExtendAll(trainer,
                   EvalModeExtensions(args.eval_mode, train, val_iter,
                                      args.batchsize))
            /\ pc' = "extend_snapshot"
            /\ UNCHANGED err
       ELSE /\ Raise("ValueError", "eval_mode")
            /\ UNCHANGED trainer
    /\ UNCHANGED <<argv, args, method, labels, class_num, train, val,
                   predictor_, train_iter, val_iter, classifier, optimizer,
                   updater, files>>

\* a faulty period: the frequency is used as given, without max(1, .)
SnapshotFrequency_NoMax(frequency, epoch) ==
    IF frequency = -1 THEN epoch ELSE frequency

\* line 217: the period of the snapshot trigger, in epochs
SnapshotFrequency(frequency, epoch) ==
    IF frequency = -1 THEN epoch ELSE Max(1, frequency)

ProgressBar == [kind |-> "ProgressBar", update_interval |-> 10]

snapshot(frequency) ==
    [kind |-> "snapshot", trigger |-> [period |-> frequency, unit |-> "epoch"]]

ExtendSnapshot ==
    /\ pc = "extend_snapshot"
    /\ trainer' = ExtendAll(trainer,
           <<ProgressBar,
             snapshot(SnapshotFrequency(args.frequency, args.epoch))>>)
    /\ pc' = "resume"
    /\ UNCHANGED <<argv, args, method, labels, class_num, train, val,
                   predictor_, train_iter, val_iter, classifier, optimizer,
                   updater, files, err>>

-----------------------------------------------------------------------------
(* Lines 220-223: resume from a snapshot, then train.                      *)

\* a faulty test: the snapshot is loaded whatever --resume is
ResumeRequested_Always(resume) == TRUE

\* line 220: `if args.resume:`
ResumeRequested(resume) == Truthy(resume)

\* chainer.serializers.load_npz(path, trainer)
load_npz(path, tr) == [tr EXCEPT !.loaded = Append(@, path)]

Resume ==
    /\ pc = "resume"
    /\ trainer' = IF ResumeRequested(args.resume)
                  THEN load_npz(args.resume, trainer)
                  ELSE trainer
    /\ pc' = "run"
    /\ UNCHANGED <<argv, args, method, labels, class_num, train, val,
                   predictor_, train_iter, val_iter, classifier, optimizer,
                   updater, files, err>>

\* trainer.run() is entered
Started(tr) == [tr EXCEPT !.runs = @ + 1]

\* trainer.run() trains and returns
RunReturns ==
    /\ pc = "run"
    /\ trainer' = Started(trainer)
    /\ pc' = "write_config"
    /\ UNCHANGED <<argv, args, method, labels, class_num, train, val,
                   predictor_, train_iter, val_iter, classifier, optimizer,
                   updater, files, err>>

\* trainer.run() raises; main() has no handler, so the exception ends it
RunRaises ==
    /\ pc = "run"
    /\ trainer' = Started(trainer)
    /\ Raise("Exception", "trainer.run")
    /\ UNCHANGED <<argv, args, method, labels, class_num, train, val,
                   predictor_, train_iter, val_iter, classifier, optimizer,
                   updater, files>>

-----------------------------------------------------------------------------
(* Lines 225-231: config.json.                                             *)

\* a Python int
Int_(n) == [py |-> "int", n |-> n]

\* a faulty dict: the labels are left out
Config_NoLabels(a) ==
    <<[key |-> "method", value |-> Str(a.method)],
      [key |-> "conv_layers", value |-> Int_(a.conv_layers)],
      [key |-> "unit_num", value |-> Int_(a.unit_num)]>>

\* a faulty dict: conv_layers and unit_num are swapped
Config_Swapped(a) ==
    <<[key |-> "method", value |-> Str(a.method)],
      [key |-> "conv_layers", value |-> Int_(a.unit_num)],
      [key |-> "unit_num", value |-> Int_(a.conv_layers)],
      [key |-> "labels", value |-> Str(a.label)]>>

\* lines 225-228: the dict `config`, as its items in insertion order
Config(a) ==
    <<[key |-> "method", value |-> Str(a.method)],
      [key |-> "conv_layers", value |-> Int_(a.conv_layers)],
      [key |-> "unit_num", value |-> Int_(a.unit_num)],
      [key |-> "labels", value |-> Str(a.label)]>>

\* json.dumps of one value: a str becomes a JSON string, an int a number
JsonValue(x) ==
    IF x.py = "str" THEN [json |-> "string", v |-> x.v]
                    ELSE [json |-> "number", n |-> x.n]

\* json.dumps(dict): a JSON object, one member per item
JsonDumps(d) ==
    [json |-> "object",
     members |-> [i \in 1..Len(d) |->
                    [name |-> d[i].key, value |-> JsonValue(d[i].value)]]]

\* os.path.join(args.out, 'config.json')
ConfigPath(out) == <<out, "config.json">>

\* open(path, 'w').write(text): the file holds exactly the text
WriteFile(fs, path, text) ==
    [p \in DOMAIN fs \cup {path} |-> IF p = path THEN text ELSE fs[p]]

WriteConfig ==
    /\ pc = "write_config"
    /\ files' = WriteFile(files, ConfigPath(args.out), JsonDumps(Config(args)))
    /\ pc' = "done"
    /\ UNCHANGED <<argv, args, method, labels, class_num, train, val,
                   predictor_, train_iter, val_iter, classifier, optimizer,
                   updater, trainer, err>>

-----------------------------------------------------------------------------

Next ==
    \/ ParseArgs
    \/ CheckMethod
    \/ SelectLabels
    \/ LoadDataset
    \/ BuildPredictor
    \/ MakeIterators
    \/ MakeClassifier
    \/ MakeTrainer
    \/ ExtendEvaluator
    \/ EvalMode
    \/ ExtendSnapshot
    \/ Resume
    \/ RunReturns
    \/ RunRaises
    \/ WriteConfig

Spec == Init /\ [][Next]_vars

-----------------------------------------------------------------------------
(* The properties of main() and the states that exhibit them.  Each        *)
(* property is stated over the command line argv and the objects main()    *)
(* built, not over the helper definitions above.                           *)

\* main() has ended: it returned or an exception left it
Ended == pc \in {"done", "raised"}

\* the value of --method after defaulting
GivenMethod == IF argv.method = "" THEN "nfp" ELSE argv.method

\* the parser accepts the command line
ParserAccepts ==
    /\ argv.method \in {"", "nfp", "ggnn", "schnet", "weavenet", "rsgcn",
                        "sparse_rsgcn"}
    /\ argv.label \in Range(label_names) \cup {""}
    /\ argv.iterator_type \in {"serial", "balanced"}

\* nothing was loaded, built or run
NothingBuilt ==
    /\ train = Unbound
    /\ val = Unbound
    /\ predictor_ = Unbound
    /\ trainer = Unbound

\* C1: for every --method other than rsgcn and sparse_rsgcn (the default nfp
\* and the other listed choices included) main() ends with an error, raised
\* before the dataset is loaded, the predictor is built or the trainer is
\* run: the ValueError of the method check when the parser accepts the
\* command line, the parser's exit otherwise.  For rsgcn and sparse_rsgcn
\* the method check does not raise.
C1_UnsupportedMethodRaises ==
    /\ pc \notin {"parse_args", "check_method"} =>
          IF GivenMethod \in {"rsgcn", "sparse_rsgcn"}
          THEN err.site # "method"
          ELSE /\ pc = "raised"
               /\ err = IF ParserAccepts
                        THEN [type |-> "ValueError", site |-> "method"]
                        ELSE [type |-> "SystemExit", site |-> "parse_args"]
               /\ NothingBuilt
    /\ pc \in {"parse_args", "check_method"} => NothingBuilt /\ err = NoError

\* C1 witness: the default method nfp was rejected by the method check
C1_Witness ==
    /\ pc = "raised"
    /\ err = [type |-> "ValueError", site |-> "method"]
    /\ argv.method = ""
    /\ args.method = "nfp"

\* the number of predicted classes
GivenClassNum == IF argv.label # "" THEN 1 ELSE Len(label_names)

\* the command line gets main() to the choice of the iterator
ReachesIterators ==
    ParserAccepts /\ GivenMethod \in {"rsgcn", "sparse_rsgcn"}

\* C2: with --iterator-type balanced the iterator check raises ValueError
\* exactly when the number of predicted classes is greater than one (1 with a
\* --label, the number of Tox21 label names without); with balanced and a
\* single label it does not raise and the balanced iterator over the training
\* set is the training iterator; with serial the check never raises.
C2_BalancedNeedsOneLabel ==
    /\ err.site = "balanced" =>
          /\ err.type = "ValueError"
          /\ ReachesIterators
          /\ argv.iterator_type = "balanced"
          /\ GivenClassNum > 1
    /\ Ended /\ ReachesIterators /\ argv.iterator_type = "balanced" =>
          IF GivenClassNum > 1
          THEN /\ pc = "raised"
               /\ err = [type |-> "ValueError", site |-> "balanced"]
               /\ train_iter = Unbound
          ELSE /\ err.site \notin {"balanced", "iterator_type"}
               /\ train_iter.kind = "BalancedSerialIterator"
               /\ train_iter.dataset = train
               /\ train.split = "train"
               /\ pc = "done" => trainer.updater.iterator = train_iter
    /\ Ended /\ ReachesIterators /\ argv.iterator_type = "serial" =>
          /\ err.site \notin {"balanced", "iterator_type"}
          /\ train_iter.kind = "SerialIterator"

\* C2 witness: a run with the balanced iterator and one label completed
C2_Witness ==
    /\ pc = "done"
    /\ argv.iterator_type = "balanced"
    /\ argv.label = "NR-AR"
    /\ train_iter.kind = "BalancedSerialIterator"

\* the eval-mode check is reached: no earlier check raises
ReachesEvalMode ==
    /\ ReachesIterators
    /\ ~(argv.iterator_type = "balanced" /\ GivenClassNum > 1)

\* C3: for every integer --eval-mode other than 0 and 1 main() does not
\* complete: it raises, a ValueError whenever the parser accepts the command
\* line, and the eval-mode check itself raises it when no earlier check
\* does; the training run is never started.  For 0 and 1 the eval-mode check
\* does not raise.
C3_InvalidEvalModeRaises ==
    /\ argv.eval_mode \notin {0, 1} =>
          /\ pc \notin {"extend_snapshot", "resume", "run", "write_config",
                        "done"}
          /\ Ended =>
                /\ pc = "raised"
                /\ ParserAccepts => err.type = "ValueError"
                /\ ReachesEvalMode =>
                      err = [type |-> "ValueError", site |-> "eval_mode"]
          /\ trainer # Unbound => trainer.runs = 0
    /\ argv.eval_mode \in {0, 1} => err.site # "eval_mode"

\* C3 witness: eval mode 2 was rejected by the eval-mode check
C3_Witness ==
    /\ pc = "raised"
    /\ err = [type |-> "ValueError", site |-> "eval_mode"]
    /\ argv.eval_mode = 2
\* the JSON object written to config.json in the --out directory
ConfigJson == files[<<argv.out, "config.json">>]

\* the names of the members of a JSON object
JsonKeys(obj) == {obj.members[i].name : i \in DOMAIN obj.members}

\* the value of member k of a JSON object
JsonGet(obj, k) ==
    obj.members[CHOOSE i \in DOMAIN obj.members : obj.members[i].name = k].value

\* C4: after every run of main() whose training run returned, config.json
\* exists in the --out directory and its JSON object has the four keys
\* method, conv_layers, unit_num and labels, each once, and no other key.
C4_ConfigHasFourKeys ==
    pc = "done" =>
       /\ <<argv.out, "config.json">> \in DOMAIN files
       /\ ConfigJson.json = "object"
       /\ JsonKeys(ConfigJson) = {"method", "conv_layers", "unit_num", "labels"}
       /\ Len(ConfigJson.members) = 4

\* C4 witness: a run into a non-default --out directory completed
C4_Witness ==
    /\ pc = "done"
    /\ trainer.runs = 1
    /\ argv.out = "out"
    /\ DOMAIN files = {<<"out", "config.json">>}

\* the labels a recorded 'labels' value names
LabelsNamed(v) == IF v.v = "" THEN {} ELSE {v.v}

\* C5 as stated: config.json records --method, --conv-layers, --unit-num, and
\* as 'labels' the labels actually used for training (the --label value when
\* one is given, the full set of labels when it is not).
C5_ConfigRecordsUsedLabels ==
    pc = "done" =>
       /\ JsonGet(ConfigJson, "method") = [json |-> "string", v |-> GivenMethod]
       /\ JsonGet(ConfigJson, "conv_layers") =
             [json |-> "number", n |-> argv.conv_layers]
       /\ JsonGet(ConfigJson, "unit_num") =
             [json |-> "number", n |-> argv.unit_num]
       /\ JsonGet(ConfigJson, "labels").json = "string"
       /\ LabelsNamed(JsonGet(ConfigJson, "labels")) = TaskNames(train)

\* C5 as amended: config.json records --method, --conv-layers, --unit-num, and
\* as 'labels' the --label argument as given: the label trained on when one
\* is given, and the empty string when it is not (the training then uses all
\* the labels, which the file does not list).
C5_ConfigRecordsArguments ==
    pc = "done" =>
       /\ JsonGet(ConfigJson, "method") = [json |-> "string", v |-> GivenMethod]
       /\ JsonGet(ConfigJson, "conv_layers") =
             [json |-> "number", n |-> argv.conv_layers]
       /\ JsonGet(ConfigJson, "unit_num") =
             [json |-> "number", n |-> argv.unit_num]
       /\ JsonGet(ConfigJson, "labels") = [json |-> "string", v |-> argv.label]
       /\ IF argv.label # ""
          THEN /\ TaskNames(train) = {argv.label}
               /\ TaskNames(trainer.updater.iterator.dataset) = {argv.label}
          ELSE /\ TaskNames(train) = Range(label_names)
               /\ TaskNames(trainer.updater.iterator.dataset) =
                     Range(label_names)

\* C5 witness: a run without --label completed and recorded the empty string
C5_Witness ==
    /\ pc = "done"
    /\ argv.label = ""
    /\ argv.conv_layers = 2
    /\ JsonGet(ConfigJson, "labels") = [json |-> "string", v |-> ""]
    /\ Cardinality(TaskNames(train)) = Len(label_names)

\* the trainer exists
TrainerBuilt == trainer # Unbound

\* the snapshots loaded into the trainer, given --resume
ExpectedLoads == IF argv.resume # "" THEN <<argv.resume>> ELSE <<>>

\* the kinds of the registered extensions, in order
ExtensionKinds(tr) == [i \in DOMAIN tr.extensions |-> tr.extensions[i].kind]

\* every trainer extension of the given eval mode is registered
AllExtensionsRegistered(tr) ==
    ExtensionKinds(tr) =
        IF argv.eval_mode = 0
        THEN <<"Evaluator", "LogReport", "PrintReport", "ProgressBar",
               "snapshot">>
        ELSE <<"Evaluator", "LogReport", "ROCAUCEvaluator", "ROCAUCEvaluator",
               "PrintReport", "ProgressBar", "snapshot">>

\* the training run was reached: started, or about to start
AtOrPastRun ==
    \/ pc \in {"run", "write_config", "done"}
    \/ pc = "raised" /\ err.site = "trainer.run"

\* C6, the states: the trainer state is loaded from the --resume path once if
\* --resume is a non-empty string and never otherwise, nothing is loaded
\* before the resume step, and the training run is started at most once.
C6_ResumeStates ==
    TrainerBuilt =>
       /\ trainer.runs <= 1
       /\ Len(trainer.loaded) <= 1
       /\ AtOrPastRun => trainer.loaded = ExpectedLoads
       /\ ~AtOrPastRun => trainer.loaded = <<>> /\ trainer.runs = 0
       /\ pc \in {"write_config", "done"} => trainer.runs = 1

\* C6, the steps: a load happens with every extension registered and the
\* training run not started; once the run is started nothing is loaded and no
\* extension is registered any more.
C6_ResumeSteps ==
    (TrainerBuilt /\ TrainerBuilt') =>
       /\ trainer'.loaded # trainer.loaded =>
             /\ AllExtensionsRegistered(trainer)
             /\ trainer'.extensions = trainer.extensions
             /\ trainer.runs = 0
             /\ trainer'.runs = 0
       /\ trainer'.runs # trainer.runs =>
             /\ trainer'.runs = trainer.runs + 1
             /\ AllExtensionsRegistered(trainer)
             /\ trainer'.loaded = trainer.loaded
       /\ trainer.runs > 0 => trainer' = trainer

\* C6: resume-from-snapshot is optional and the only recovery step: loaded
\* exactly once iff --resume is non-empty, after every extension is
\* registered and before the training run, which is started at most once.
C6_ResumeOnceBeforeRun == []C6_ResumeStates /\ [][C6_ResumeSteps]_vars

\* C6 witness: a resumed run completed
C6_Witness ==
    /\ pc = "done"
    /\ argv.resume = "result/snapshot_iter_100"
    /\ trainer.loaded = <<"result/snapshot_iter_100">>
    /\ trainer.runs = 1

\* the registered extensions of one kind, in order
ExtensionsOfKind(k) == SelectSeq(trainer.extensions, LAMBDA e : e.kind = k)

\* the eval-mode block was passed
PastEvalMode ==
    \/ pc \in {"extend_snapshot", "resume", "run", "write_config", "done"}
    \/ pc = "raised" /\ err.site = "trainer.run"

\* C7: with --eval-mode 0 no ROC-AUC evaluator is registered and the printed
\* report has no roc_auc column; with --eval-mode 1 exactly two are, 'train'
\* over the training set and 'val' over the validation set, and the report
\* has train/main/roc_auc and val/main/roc_auc.  In both modes the standard
\* evaluator over the validation set and the log report are registered.
C7_EvalModeSelectsRocAuc ==
    PastEvalMode =>
       LET roc == ExtensionsOfKind("ROCAUCEvaluator")
           report == ExtensionsOfKind("PrintReport")
           columns == Range(report[1].entries)
           ev == ExtensionsOfKind("Evaluator")
       IN  /\ Len(report) = 1
           /\ Len(ev) = 1
           /\ ev[1].iterator.dataset = val
           /\ val.split = "val"
           /\ Len(ExtensionsOfKind("LogReport")) = 1
           /\ {"main/accuracy", "validation/main/accuracy"} \subseteq columns
           /\ argv.eval_mode \in {0, 1}
           /\ argv.eval_mode = 0 =>
                 /\ roc = <<>>
                 /\ columns \cap {"train/main/roc_auc", "val/main/roc_auc",
                                  "main/roc_auc", "validation/main/roc_auc"}
                       = {}
           /\ argv.eval_mode = 1 =>
                 /\ Len(roc) = 2
                 /\ roc[1].name = "train"
                 /\ roc[1].iterator.dataset = train
                 /\ train.split = "train"
                 /\ roc[2].name = "val"
                 /\ roc[2].iterator.dataset = val
                 /\ {"train/main/roc_auc", "val/main/roc_auc"}
                       \subseteq columns

\* C7 witness: a run in eval mode 1 completed with both ROC-AUC evaluators
C7_Witness ==
    /\ pc = "done"
    /\ argv.eval_mode = 1
    /\ Len(ExtensionsOfKind("ROCAUCEvaluator")) = 2
    /\ Len(ExtensionsOfKind("PrintReport")) = 1

\* the converter that matches the method
MatchingConverter ==
    IF GivenMethod = "sparse_rsgcn"
    THEN [fn |-> "concat_sparse_rsgcn", flatten |-> argv.flatten]
    ELSE [fn |-> "concat_mols"]

\* C8: the updater, the standard evaluator and every ROC-AUC evaluator use
\* the converter that matches the method: concat_sparse_rsgcn (with the
\* --flatten value) for sparse_rsgcn, concat_mols for rsgcn.
C8_ConvertersMatchMethod ==
    TrainerBuilt =>
       /\ trainer.updater.converter = MatchingConverter
       /\ \A i \in DOMAIN trainer.extensions :
             trainer.extensions[i].kind \in {"Evaluator", "ROCAUCEvaluator"}
                => trainer.extensions[i].converter = MatchingConverter

\* the registered snapshot extension
Snapshot == ExtensionsOfKind("snapshot")[1]

\* the snapshot extension is registered
SnapshotRegistered ==
    \/ pc \in {"resume", "run", "write_config", "done"}
    \/ pc = "raised" /\ err.site = "trainer.run"

\* C9 as stated: the snapshot trigger interval equals --epoch when
\* --frequency is -1 and max(1, --frequency) otherwise, and is at least one
\* epoch for every --frequency and --epoch.
C9_SnapshotIntervalPositive ==
    SnapshotRegistered =>
       /\ Snapshot.trigger.unit = "epoch"
       /\ Snapshot.trigger.period =
             IF argv.frequency = -1 THEN argv.epoch
             ELSE IF argv.frequency >= 1 THEN argv.frequency ELSE 1
       /\ Snapshot.trigger.period >= 1

\* C9 as amended: the snapshot trigger interval equals --epoch when
\* --frequency is -1 and max(1, --frequency) otherwise; it is at least one
\* epoch whenever --frequency is not -1 or --epoch is at least 1, and it is
\* the non-positive --epoch when --frequency is -1 and --epoch is below 1.
C9_SnapshotInterval ==
    SnapshotRegistered =>
       /\ Len(ExtensionsOfKind("snapshot")) = 1
       /\ Snapshot.trigger.unit = "epoch"
       /\ Snapshot.trigger.period =
             IF argv.frequency = -1 THEN argv.epoch
             ELSE IF argv.frequency >= 1 THEN argv.frequency ELSE 1
       /\ (argv.frequency # -1 \/ argv.epoch >= 1) =>
             Snapshot.trigger.period >= 1
       /\ (argv.frequency = -1 /\ argv.epoch < 1) =>
             Snapshot.trigger.period = argv.epoch

\* C9 witness: a frequency of 0 was raised to a period of one epoch
C9_Witness ==
    /\ SnapshotRegistered
    /\ argv.frequency = 0
    /\ argv.epoch = 0
    /\ Snapshot.trigger.period = 1
====
